---- MODULE Spec2Model ----
(***************************************************************************)
(* Model of fglib/graphs.py: the FactorGraph container (set_node,          *)
(* set_nodes, set_edge, set_edges, get_vnodes, get_fnodes) and the         *)
(* conversion function convert_to_fg.                                      *)
(*                                                                         *)
(* Two specifications:                                                     *)
(*   Spec    one call of convert_to_fg on an arbitrary input graph          *)
(*   SpecFG  a caller driving the FactorGraph API on several graphs         *)
(***************************************************************************)
EXTENDS Integers, Sequences, FiniteSets, TLC

VARIABLES
    heap,       \* generic graphs by reference: "arg" is the caller's graph
    graphRef,   \* convert_to_fg's local name `graph`: the reference it holds
    bipartite,  \* convert_to_fg's keyword argument
    mapping,    \* convert_to_fg's local `mapping`
    pc,         \* "start" | "returned" | "raised" (Spec); "api" (SpecFG)
    world,      \* the FactorGraph objects and the nodes' `graph` attribute
    ret,        \* what the last call handed back to the caller
    ops         \* number of API calls made so far (SpecFG)

vars == <<heap, graphRef, bipartite, mapping, pc, world, ret, ops>>

(***************************************************************************)
(* Bounds                                                                  *)
(***************************************************************************)
MaxNodes == 3   \* nodes of the input graph
MaxEdges == 2   \* edges of the input graph
MaxIdx   == 1   \* SpecFG: node objects vnode(i), fnode(i), i < MaxIdx
MaxOps   == 3   \* SpecFG: API calls in one run
MaxList  == 2   \* SpecFG: length of the lists given to set_nodes, set_edges

(***************************************************************************)
(* Python values                                                           *)
(***************************************************************************)
None == "None"
EmptyDict == [x \in {} |-> None]

Range(s) == {s[i] : i \in DOMAIN s}

\* dict.update: the entries of `new` replace those of `old`
Update(old, new) == new @@ old

\* list.pop(): removes and returns the LAST item
pop_front(box) == [item |-> box[1], rest |-> SubSeq(box, 2, Len(box))]

pop(box) == [item |-> box[Len(box)], rest |-> SubSeq(box, 1, Len(box) - 1)]

\* range(n) as a list
range(n) == [i \in 1..n |-> i - 1]

(***************************************************************************)
(* Nodes.  Input nodes are plain hashable labels; vnode and fnode are the  *)
(* factories handed to convert_to_fg, each call building a new instance    *)
(* whose `type` is fixed by its class.                                     *)
(***************************************************************************)
Orig(i) == [kind |-> "orig", idx |-> i]

vnode(i) == [kind |-> "vnode", idx |-> i]

fnode(i, f) == [kind |-> "fnode", idx |-> i]

variable_node == "variable_node"
factor_node == "factor_node"

NodeType(n) == IF n.kind = "vnode" THEN variable_node ELSE factor_node

(***************************************************************************)
(* The underlying graph storage (networkx.Graph) as FactorGraph uses it.   *)
(* A FactorGraph is [order, node, edge]: the nodes in insertion order, the *)
(* attribute dict of every node, and the attribute dict of every edge,     *)
(* an edge being the unordered pair of its endpoints.                      *)
(***************************************************************************)
\* FactorGraph.__init__: an empty graph
NewFactorGraph == [order |-> <<>>, node |-> EmptyDict, edge |-> EmptyDict]

\* Graph.add_node(n, attr_dict): a new node gets attr_dict, a present node
\* has its attributes updated
add_node(G, n, attr) ==
    IF n \in DOMAIN G.node
    THEN [G EXCEPT !.node = (n :> Update(G.node[n], attr)) @@ @]
    ELSE [G EXCEPT !.order = Append(@, n), !.node = (n :> attr) @@ @]

\* Graph.add_edge(u, v, attr_dict): endpoints that are not in the graph are
\* added with an empty attribute dict; a present edge has its attributes
\* updated
add_edge(G, u, v, attr) ==
    LET G1 == IF u \in DOMAIN G.node THEN G
              ELSE [G EXCEPT !.order = Append(@, u), !.node = (u :> EmptyDict) @@ @]
        G2 == IF v \in DOMAIN G1.node THEN G1
              ELSE [G1 EXCEPT !.order = Append(@, v), !.node = (v :> EmptyDict) @@ @]
        old == IF {u, v} \in DOMAIN G2.edge THEN G2.edge[{u, v}] ELSE EmptyDict
    IN  [G2 EXCEPT !.edge = ({u, v} :> Update(old, attr)) @@ @]

\* edges.Edge(snode, tnode, init)
Edge(snode, tnode, init) == [source |-> snode, target |-> tnode, message |-> init]

(***************************************************************************)
(* FactorGraph methods.  W is the world: W.fg[self] is the FactorGraph     *)
(* object `self`, W.graph[n] is the attribute `graph` of node object n.    *)
(***************************************************************************)
\* a set_node that forgets the type tag
set_node_untyped(W, self, node, attr) ==
    [fg    |-> [W.fg EXCEPT ![self] = add_node(@, node, attr)],
     graph |-> (node :> self) @@ W.graph]

\* FactorGraph.set_node(node, **attr)
set_node(W, self, node, attr) ==
    [fg    |-> [W.fg EXCEPT ![self] =
                   add_node(@, node, Update(attr, [type |-> NodeType(node)]))],
     graph |-> (node :> self) @@ W.graph]

\* FactorGraph.set_nodes(nodes)
RECURSIVE set_nodes(_, _, _)
set_nodes(W, self, nodes) ==
    IF nodes = <<>> THEN W
    ELSE set_nodes(set_node(W, self, Head(nodes), EmptyDict), self, Tail(nodes))

\* FactorGraph.set_edge(snode, tnode, init)
set_edge(W, self, snode, tnode, init) ==
    [W EXCEPT !.fg[self] = add_edge(@, snode, tnode, [object |-> Edge(snode, tnode, init)])]

\* a set_edges that returns from inside its loop, after the first edge
set_edges_first_only(W, self, edges) ==
    IF edges = <<>> THEN W
    ELSE set_edge(W, self, Head(edges)[1], Head(edges)[2], None)

\* FactorGraph.set_edges(edges)
RECURSIVE set_edges(_, _, _)
set_edges(W, self, edges) ==
    IF edges = <<>> THEN W
    ELSE set_edges(set_edge(W, self, Head(edges)[1], Head(edges)[2], None),
                   self, Tail(edges))

\* the nodes of `self` of the given type, in node order; KeyError when a
\* node has no 'type' attribute (d['type'])
NodesOfType(W, self, t) ==
    LET G == W.fg[self]
    IN  IF \E n \in DOMAIN G.node : "type" \notin DOMAIN G.node[n]
        THEN [tag |-> "KeyError"]
        ELSE [tag |-> "list",
              val |-> SelectSeq(G.order, LAMBDA n : G.node[n]["type"] = t)]

\* FactorGraph.get_vnodes()
get_vnodes(W, self) == NodesOfType(W, self, variable_node)

\* FactorGraph.get_fnodes()
get_fnodes(W, self) == NodesOfType(W, self, factor_node)

(***************************************************************************)
(* The input graph of convert_to_fg: a generic graph [order, node, edges], *)
(* with the nodes in iteration order, the attribute dict of every node and *)
(* the edges in iteration order, each a pair <<u, v>>.                     *)
(***************************************************************************)
\* d['bipartite'] of a node whose dict has no such key raises KeyError;
\* this variant reads a missing label as 0
label_or_default(d) ==
    IF "bipartite" \in DOMAIN d THEN [ok |-> TRUE, val |-> d["bipartite"]]
    ELSE [ok |-> TRUE, val |-> 0]

\* d['bipartite']
label(d) ==
    IF "bipartite" \in DOMAIN d THEN [ok |-> TRUE, val |-> d["bipartite"]]
    ELSE [ok |-> FALSE, val |-> 0]

\* a partition that compares with the label of the other part
part_nodes_swapped(G, part) ==
    IF \E n \in DOMAIN G.node : ~label(G.node[n]).ok
    THEN [ok |-> FALSE, nodes |-> <<>>]
    ELSE [ok |-> TRUE,
          nodes |-> SelectSeq(G.order, LAMBDA n : label(G.node[n]).val = 1 - part)]

\* [n for (n, d) in graph.nodes(data=True) if d['bipartite'] == part]
part_nodes(G, part) ==
    IF \E n \in DOMAIN G.node : ~label(G.node[n]).ok
    THEN [ok |-> FALSE, nodes |-> <<>>]
    ELSE [ok |-> TRUE,
          nodes |-> SelectSeq(G.order, LAMBDA n : label(G.node[n]).val = part)]

\* mapping.update((n, obj_box.pop()) for n in ns)
RECURSIVE assign(_, _)
assign(ns, obj_box) ==
    IF ns = <<>> THEN EmptyDict
    ELSE LET p == pop(obj_box)
         IN  (Head(ns) :> p.item) @@ assign(Tail(ns), p.rest)

\* the graph nx.relabel_nodes builds from G
relabelled(G, m) ==
    [order |-> [i \in DOMAIN G.order |-> m[G.order[i]]],
     node  |-> [x \in {m[n] : n \in DOMAIN G.node}
                  |-> G.node[CHOOSE n \in DOMAIN G.node : m[n] = x]],
     edges |-> [i \in DOMAIN G.edges |-> <<m[G.edges[i][1]], m[G.edges[i][2]]>>]]

\* a relabel that renames the nodes of the graph it is given (copy=False)
relabel_in_place(H, ref, m) ==
    [heap |-> [H EXCEPT ![ref] = relabelled(H[ref], m)], ref |-> ref]

\* graph = nx.relabel_nodes(graph, mapping): a new graph object, the one
\* passed in is left as it is
relabel_nodes(H, ref, m) ==
    [heap |-> ("copy" :> relabelled(H[ref], m)) @@ H, ref |-> "copy"]

\* an origin dict that is the mapping itself, not its inverse
inverse_forgotten(m) == m

\* {v: k for k, v in mapping.items()}
inverse(m) ==
    [v \in {m[k] : k \in DOMAIN m} |-> CHOOSE k \in DOMAIN m : m[k] = v]

\* nx.set_node_attributes(G, name, values): G.node[n][name] = values[n]
set_node_attributes(G, name, values) ==
    [G EXCEPT !.node = [n \in DOMAIN G.node |->
                          IF n \in DOMAIN values
                          THEN (name :> values[n]) @@ G.node[n]
                          ELSE G.node[n]]]

\* a loop that reads the last index (i[-1]) and never removes it
RECURSIVE expand_edges_same_index(_, _, _, _)
expand_edges_same_index(W, self, edges, i) ==
    IF edges = <<>> THEN W
    ELSE LET n == fnode(i[Len(i)], None)
             e == Head(edges)
         IN  expand_edges_same_index(
                 set_edges(set_node(W, self, n, EmptyDict), self,
                           << <<e[1], n>>, <<n, e[2]>> >>),
                 self, Tail(edges), i)

\* for e in graph.edges_iter(): n = fnode(i.pop(), None); fgraph.set_node(n);
\*     fgraph.set_edges([(e[0], n), (n, e[1])])
RECURSIVE expand_edges(_, _, _, _)
expand_edges(W, self, edges, i) ==
    IF edges = <<>> THEN W
    ELSE LET p == pop(i)
             n == fnode(p.item, None)
             e == Head(edges)
         IN  expand_edges(
                 set_edges(set_node(W, self, n, EmptyDict), self,
                           << <<e[1], n>>, <<n, e[2]>> >>),
                 self, Tail(edges), p.rest)

\* mapping = dict(zip(graph, graph)); fgraph = FactorGraph()
identity(G) == [n \in DOMAIN G.node |-> n]

FreshWorld == [fg |-> ("fgraph" :> NewFactorGraph), graph |-> EmptyDict]

\* origin = ...; nx.set_node_attributes(fgraph, 'origin', origin); return fgraph
finish(H, ref, m, W) ==
    [pc |-> "returned", heap |-> H, ref |-> ref, mapping |-> m,
     world |-> [W EXCEPT !.fg["fgraph"] = set_node_attributes(@, "origin", inverse(m))],
     ret |-> [tag |-> "FactorGraph", val |-> "fgraph"]]

\* convert_to_fg(graph, vnode, fnode, bipartite=True)
convert_bipartite(H) ==
    LET G  == H["arg"]
        vn == part_nodes(G, 0)
        fn == part_nodes(G, 1)
    IN  IF ~vn.ok \/ ~fn.ok
        THEN [pc |-> "raised", heap |-> H, ref |-> "arg", mapping |-> identity(G),
              world |-> FreshWorld, ret |-> [tag |-> "KeyError"]]
        ELSE
        LET vbox == [k \in DOMAIN range(Len(vn.nodes)) |-> vnode(range(Len(vn.nodes))[k])]
            m1   == Update(identity(G), assign(vn.nodes, vbox))
            fbox == [k \in DOMAIN range(Len(fn.nodes)) |-> fnode(range(Len(fn.nodes))[k], None)]
            m2   == Update(m1, assign(fn.nodes, fbox))
            r    == relabel_nodes(H, "arg", m2)
            g    == r.heap[r.ref]
            plain == {k \in DOMAIN g.order : g.order[k].kind = "orig"}
            upto == IF plain = {} THEN Len(g.order)
                    ELSE (CHOOSE k \in plain : \A j \in plain : k <= j) - 1
            W1   == set_nodes(FreshWorld, "fgraph", SubSeq(g.order, 1, upto))
            W2   == set_edges(W1, "fgraph", g.edges)
        IN  IF plain # {}
            THEN \* a node labelled neither 0 nor 1 keeps its plain name, and
                 \* set_node's `node.graph = self` fails on it
                 [pc |-> "raised", heap |-> r.heap, ref |-> r.ref, mapping |-> m2,
                  world |-> W1, ret |-> [tag |-> "AttributeError"]]
            ELSE finish(r.heap, r.ref, m2, W2)

\* convert_to_fg(graph, vnode, fnode, bipartite=False)
convert_plain(H) ==
    LET G    == H["arg"]
        vbox == [k \in DOMAIN range(Len(G.order)) |-> vnode(range(Len(G.order))[k])]
        m1   == Update(identity(G), assign(G.order, vbox))
        r    == relabel_nodes(H, "arg", m1)
        g    == r.heap[r.ref]
        W1   == set_nodes(FreshWorld, "fgraph", g.order)
        W2   == expand_edges(W1, "fgraph", g.edges, range(Len(g.edges)))
    IN  finish(r.heap, r.ref, m1, W2)

(***************************************************************************)
(* Spec: one call of convert_to_fg.  The input graph has at most MaxNodes  *)
(* nodes and MaxEdges edges; self-loops are allowed, parallel edges are    *)
(* not (the input is a networkx.Graph).  A node carries the part label 0,  *)
(* 1 or 2 under the key 'bipartite', or no label.  The node names are      *)
(* Orig(1..n), iterated in ascending or in descending order; an edge is    *)
(* reported from the endpoint the iteration meets first.                   *)
(***************************************************************************)
NodeOrders ==
    UNION {{[i \in 1..n |-> Orig(i)], [i \in 1..n |-> Orig(n + 1 - i)]} : n \in 0..MaxNodes}

NodeDicts == {EmptyDict, [bipartite |-> 0], [bipartite |-> 1], [bipartite |-> 2]}

\* the pairs <<u, v>> with u met no later than v
PairsOf(order) ==
    {e \in Range(order) \X Range(order) :
        \E i \in DOMAIN order, j \in DOMAIN order :
            i <= j /\ e = <<order[i], order[j]>>}

EdgeLists(order) ==
    UNION {{es \in [1..k -> PairsOf(order)] :
              \A a \in 1..k, b \in 1..k : a # b => es[a] # es[b]} : k \in 0..MaxEdges}

InputGraph(o, d, es) == [order |-> o, node |-> d, edges |-> es]

NoWorld == [fg |-> EmptyDict, graph |-> EmptyDict]

Init ==
    /\ \E o \in NodeOrders :
         \E d \in [Range(o) -> NodeDicts], es \in EdgeLists(o) :
            heap = [arg |-> InputGraph(o, d, es)]
    /\ graphRef = "arg"
    /\ bipartite = FALSE
    /\ mapping = EmptyDict
    /\ pc = "start"
    /\ world = NoWorld
    /\ ret = [tag |-> "None"]
    /\ ops = 0

Return(r) ==
    /\ heap' = r.heap
    /\ graphRef' = r.ref
    /\ mapping' = r.mapping
    /\ pc' = r.pc
    /\ world' = r.world
    /\ ret' = r.ret
    /\ UNCHANGED ops

\* the caller runs convert_to_fg(graph, vnode, fnode, bipartite=True)
ConvertBipartite ==
    /\ pc = "start"
    /\ bipartite' = TRUE
    /\ Return(convert_bipartite(heap))

\* the caller runs convert_to_fg(graph, vnode, fnode)
ConvertPlain ==
    /\ pc = "start"
    /\ bipartite' = FALSE
    /\ Return(convert_plain(heap))

Next == ConvertBipartite \/ ConvertPlain

Spec == Init /\ [][Next]_vars

(***************************************************************************)
(* SpecFG: a caller with two FactorGraphs and the node objects vnode(i),   *)
(* fnode(i, None), i < MaxIdx, making at most MaxOps calls.  SpecNodes is  *)
(* the same caller restricted to set_node and set_nodes.                   *)
(***************************************************************************)
Graphs == {"g1", "g2"}

NodeObjs == {vnode(i) : i \in 0..(MaxIdx - 1)} \cup {fnode(i, None) : i \in 0..(MaxIdx - 1)}

Attrs == {EmptyDict, [color |-> "red"]}

Messages == {None, "msg"}

ListsOf(S) == UNION {[1..k -> S] : k \in 0..MaxList}

InitFG ==
    /\ heap = EmptyDict
    /\ graphRef = None
    /\ bipartite = FALSE
    /\ mapping = EmptyDict
    /\ pc = "api"
    /\ world = [fg |-> [g \in Graphs |-> NewFactorGraph], graph |-> EmptyDict]
    /\ ret = [tag |-> "None"]
    /\ ops = 0

Call(W, r) ==
    /\ pc = "api"
    /\ ops < MaxOps
    /\ ops' = ops + 1
    /\ world' = W
    /\ ret' = r
    /\ UNCHANGED <<heap, graphRef, bipartite, mapping, pc>>

SetNode(g, n, attr) == Call(set_node(world, g, n, attr), [tag |-> "None"])

SetNodes(g, ns) == Call(set_nodes(world, g, ns), [tag |-> "None"])

SetEdge(g, s, t, init) == Call(set_edge(world, g, s, t, init), [tag |-> "None"])

SetEdges(g, es) == Call(set_edges(world, g, es), [tag |-> "None"])

GetVnodes(g) == Call(world, get_vnodes(world, g))

GetFnodes(g) == Call(world, get_fnodes(world, g))

NextNodes ==
    \/ \E g \in Graphs, n \in NodeObjs, attr \in Attrs : SetNode(g, n, attr)
    \/ \E g \in Graphs, ns \in ListsOf(NodeObjs) : SetNodes(g, ns)

NextFG ==
    \/ \E g \in Graphs, n \in NodeObjs, attr \in Attrs : SetNode(g, n, attr)
    \/ \E g \in Graphs, ns \in ListsOf(NodeObjs) : SetNodes(g, ns)
    \/ \E g \in Graphs, s \in NodeObjs, t \in NodeObjs, init \in Messages :
          SetEdge(g, s, t, init)
    \/ \E g \in Graphs, es \in ListsOf(NodeObjs \X NodeObjs) : SetEdges(g, es)
    \/ \E g \in Graphs : GetVnodes(g)
    \/ \E g \in Graphs : GetFnodes(g)

SpecNodes == InitFG /\ [][NextNodes]_vars

SpecFG == InitFG /\ [][NextFG]_vars

(***************************************************************************)
(* Vocabulary of the properties                                            *)
(***************************************************************************)
Returned == pc = "returned"

\* the graph the caller passed, and the FactorGraph convert_to_fg built
Input == heap["arg"]
Output == world.fg["fgraph"]

Typed(F, n, t) == "type" \in DOMAIN F.node[n] /\ F.node[n]["type"] = t

\* Graph.degree: the edges at n, a self-loop counted twice
Degree(F, n) ==
    Cardinality({e \in DOMAIN F.edge : n \in e}) + Cardinality({e \in DOMAIN F.edge : e = {n}})

Neighbours(F, n) == {m \in DOMAIN F.node : {n, m} \in DOMAIN F.edge}

PartLabel(G, n) == IF "bipartite" \in DOMAIN G.node[n] THEN G.node[n]["bipartite"] ELSE -1

Labelled(G, part) == SelectSeq(G.order, LAMBDA n : PartLabel(G, n) = part)

AllLabelled01(G) == \A n \in DOMAIN G.node : PartLabel(G, n) \in {0, 1}

\* every edge joins a node labelled 0 and a node labelled 1
ProperlyBipartite(G) ==
    /\ AllLabelled01(G)
    /\ \A k \in DOMAIN G.edges : PartLabel(G, G.edges[k][1]) # PartLabel(G, G.edges[k][2])

Simple(G) == \A k \in DOMAIN G.edges : G.edges[k][1] # G.edges[k][2]

WellTyped(F) ==
    /\ \A n \in DOMAIN F.node : Typed(F, n, variable_node) \/ Typed(F, n, factor_node)
    /\ \A e \in DOMAIN F.edge :
          \E u \in e, v \in e : Typed(F, u, variable_node) /\ Typed(F, v, factor_node)

(***************************************************************************)
(* C1  Partition invariant                                                 *)
(***************************************************************************)
\* C1 as stated: every FactorGraph convert_to_fg returns (bipartite=False on
\* any graph, bipartite=True on any graph whose nodes are all labelled 0 or
\* 1) has only variable and factor nodes, and each of its edges joins one
\* variable node and one factor node.
C1_PartitionAnyLabelling ==
    (Returned /\ (~bipartite \/ AllLabelled01(Input))) => WellTyped(Output)

\* C1 amended: the same, where in bipartite mode every edge of the input
\* joins a node labelled 0 and a node labelled 1.
C1_Partition ==
    (Returned /\ (~bipartite \/ ProperlyBipartite(Input))) => WellTyped(Output)

C1_Witness ==
    /\ Returned /\ bipartite
    /\ ProperlyBipartite(Input)
    /\ Len(Input.edges) = MaxEdges
    /\ Cardinality(DOMAIN Output.edge) = MaxEdges

(***************************************************************************)
(* C2  Edge expansion                                                      *)
(***************************************************************************)
\* C2: for a simple input graph with N nodes and E edges, bipartite=False
\* gives N variable nodes, E factor nodes and 2E edges; every factor node
\* has degree 2 and its neighbours are the variable nodes that replaced the
\* endpoints of one input edge, a different edge for each factor node.
C2_EdgeExpansion ==
    (Returned /\ ~bipartite /\ Simple(Input)) =>
        LET N  == Len(Input.order)
            E  == Len(Input.edges)
            vs == get_vnodes(world, "fgraph")
            fs == get_fnodes(world, "fgraph")
            ends(k) == {mapping[Input.edges[k][1]], mapping[Input.edges[k][2]]}
        IN  /\ vs.tag = "list" /\ Len(vs.val) = N
            /\ fs.tag = "list" /\ Len(fs.val) = E
            /\ Cardinality(DOMAIN Output.edge) = 2 * E
            /\ \A f \in Range(fs.val) :
                  /\ Degree(Output, f) = 2
                  /\ \E k \in DOMAIN Input.edges : Neighbours(Output, f) = ends(k)
            /\ \A k \in DOMAIN Input.edges :
                  \E f \in Range(fs.val) : Neighbours(Output, f) = ends(k)
            /\ \A n \in Range(vs.val) : \E x \in DOMAIN Input.node : mapping[x] = n

C2_Witness ==
    /\ Returned /\ ~bipartite /\ Simple(Input)
    /\ Len(Input.order) = 3
    /\ Len(Input.edges) = 2
    /\ Cardinality(DOMAIN Output.edge) = 4

(***************************************************************************)
(* C3  Origin round-trip                                                   *)
(***************************************************************************)
\* on the set S of output nodes, 'origin' is a bijection onto the input nodes
OriginBijection(F, S, G) ==
    /\ \A n \in S : "origin" \in DOMAIN F.node[n] /\ F.node[n]["origin"] \in DOMAIN G.node
    /\ \A n \in S, m \in S : F.node[n]["origin"] = F.node[m]["origin"] => n = m
    /\ \A x \in DOMAIN G.node : \E n \in S : F.node[n]["origin"] = x

C4_NodeCount ==
    (pc # "start" /\ bipartite /\ AllLabelled01(Input)) =>
        LET vs == get_vnodes(world, "fgraph")
            fs == get_fnodes(world, "fgraph")
        IN  /\ Returned
            /\ vs.tag = "list" /\ Len(vs.val) = Len(Labelled(Input, 0))
            /\ fs.tag = "list" /\ Len(fs.val) = Len(Labelled(Input, 1))
            /\ Cardinality(DOMAIN Output.edge) = Len(Input.edges)

C4_Witness ==
    /\ Returned /\ bipartite
    /\ Len(Labelled(Input, 0)) = 2
    /\ Len(Labelled(Input, 1)) = 1
    /\ Len(Input.edges) = 2
    /\ get_fnodes(world, "fgraph").tag = "list"
    /\ Len(get_fnodes(world, "fgraph").val) = 1

(***************************************************************************)
(* C5  Non-mutation                                                        *)
(***************************************************************************)
\* C5: the graph passed to convert_to_fg is the same after the call as
\* before it (nodes, edges, attributes), whether the call returns or fails.
C5_NonMutation == [][heap'["arg"] = heap["arg"]]_vars

C5_Witness ==
    /\ Returned
    /\ Len(Input.order) >= 2
    /\ Len(Input.edges) >= 1
    /\ graphRef = "copy"
    /\ heap["copy"] # heap["arg"]

(***************************************************************************)
(* C6  Missing part label                                                  *)
(***************************************************************************)
\* C6: bipartite=True on a graph with a node that has no part label ends in
\* an error, hands no FactorGraph to the caller, and types no node.
C6_MissingLabel ==
    (pc # "start" /\ bipartite /\ \E n \in DOMAIN Input.node : PartLabel(Input, n) = -1) =>
        /\ pc = "raised"
        /\ ret.tag = "KeyError"
        /\ Output.node = EmptyDict

C6_Witness ==
    /\ pc = "raised" /\ bipartite
    /\ \E n \in DOMAIN Input.node : PartLabel(Input, n) = -1
    /\ \E n \in DOMAIN Input.node : PartLabel(Input, n) = 0
    /\ \E n \in DOMAIN Input.node : PartLabel(Input, n) = 1

(***************************************************************************)
(* C7  Dangling endpoint                                                   *)
(***************************************************************************)
\* C7: set_edge(source, target) with an endpoint that is not a node of the
\* graph raises DanglingReference and leaves the graph unchanged.
C7_DanglingRejected ==
    [][\A g \in Graphs, s \in NodeObjs, t \in NodeObjs, init \in Messages :
          (/\ SetEdge(g, s, t, init)
           /\ (s \notin DOMAIN world.fg[g].node \/ t \notin DOMAIN world.fg[g].node))
          => (world' = world /\ ret'.tag = "DanglingReference")]_vars

(***************************************************************************)
(* C8  Single ownership                                                    *)
(***************************************************************************)
\* C8: after any sequence of set_node / set_nodes calls every node is in
\* the node set of at most one FactorGraph, and its `graph` attribute names
\* that graph.
C8_SingleOwnership ==
    pc = "api" =>
        \A n \in NodeObjs :
            LET owners == {g \in Graphs : n \in DOMAIN world.fg[g].node}
            IN  /\ Cardinality(owners) <= 1
                /\ \A g \in owners : n \in DOMAIN world.graph /\ world.graph[n] = g

(***************************************************************************)
(* C9  Index assignment                                                    *)
(***************************************************************************)
\* the edge at position k (from 1) of the relabelled graph runs through f
Through(k, f) ==
    LET e == heap[graphRef].edges[k]
    IN  /\ f \in DOMAIN Output.node
        /\ Neighbours(Output, f) = {e[1], e[2]}

\* the index of the instance given to position k (from 0) of n positions
Idx(reversed, n, k) == IF reversed THEN n - 1 - k ELSE k

IndexAssignment(reversed) ==
    Returned =>
        IF bipartite
        THEN LET V == Labelled(Input, 0)
                 F == Labelled(Input, 1)
             IN  /\ \A k \in DOMAIN V : mapping[V[k]] = vnode(Idx(reversed, Len(V), k - 1))
                 /\ \A k \in DOMAIN F :
                        mapping[F[k]] = fnode(Idx(reversed, Len(F), k - 1), None)
        ELSE /\ \A k \in DOMAIN Input.order :
                    mapping[Input.order[k]] = vnode(Idx(reversed, Len(Input.order), k - 1))
             /\ \A k \in DOMAIN heap[graphRef].edges :
                    Through(k, fnode(Idx(reversed, Len(heap[graphRef].edges), k - 1), None))

\* C9 as stated: the node (edge) at position k gets the instance the factory
\* built for index k.
C9_IndexIsPosition == IndexAssignment(FALSE)

\* C9 amended: the node at position k of a list of n nodes gets the instance
\* built for index n-1-k, and the edge at position k of the E edges gets the
\* factor node built by fnode(E-1-k, None): the instances are handed out
\* from the end of the list of built instances.
C9_IndexReversed == IndexAssignment(TRUE)

C9_Witness ==
    /\ Returned /\ ~bipartite
    /\ Len(Input.order) = 3
    /\ Len(Input.edges) = 2
    /\ mapping[Input.order[1]] = vnode(2)
    /\ Through(1, fnode(1, None))

(***************************************************************************)
(* C10 Self-loop expansion                                                 *)
(***************************************************************************)
\* the positions of the self-loops among the input's edges
Loops == {k \in DOMAIN Input.edges : Input.edges[k][1] = Input.edges[k][2]}

\* the factor node synthesized for the edge at position k (from 1)
FactorOf(k) == fnode(Len(Input.edges) - k, None)

\* C10 as stated: in non-bipartite mode the factor node synthesized for a
\* self-loop on u is connected twice to the variable node that replaced u:
\* the loop contributes two edges and its factor node has degree 2.
C10_LoopTwoEdges ==
    (Returned /\ ~bipartite) =>
        /\ \A k \in Loops :
              /\ FactorOf(k) \in DOMAIN Output.node
              /\ Neighbours(Output, FactorOf(k)) = {mapping[Input.edges[k][1]]}
              /\ Degree(Output, FactorOf(k)) = 2
        /\ Cardinality(DOMAIN Output.edge) = 2 * Len(Input.edges)

\* C10 amended: the factor node synthesized for a self-loop on u is
\* connected once to the variable node that replaced u: the insertions
\* (u', n) and (n, u') address the same undirected edge, the second
\* replacing the Edge object of the first, so the loop contributes one edge
\* and its factor node has degree 1.
C10_LoopOneEdge ==
    (Returned /\ ~bipartite) =>
        /\ \A k \in Loops :
              LET u == mapping[Input.edges[k][1]]
                  n == FactorOf(k)
              IN  /\ n \in DOMAIN Output.node
                  /\ Neighbours(Output, n) = {u}
                  /\ Degree(Output, n) = 1
                  /\ Output.edge[{u, n}]["object"] = Edge(n, u, None)
        /\ Cardinality(DOMAIN Output.edge) = 2 * Len(Input.edges) - Cardinality(Loops)

C10_Witness ==
    /\ Returned /\ ~bipartite
    /\ Cardinality(Loops) = 1
    /\ Len(Input.edges) = 2
    /\ Cardinality(DOMAIN Output.edge) = 3

====
